---- MODULE Spec2Model ----
(***************************************************************************)
(* A model of mlforecast/api.py: the configuration-driven pipeline runner  *)
(* run_forecast with its cluster lifecycle, perform_backtest, the schema   *)
(* validation validate_data_format and the transform resolver              *)
(* _instantiate_transforms.                                                *)
(***************************************************************************)
EXTENDS Integers, Sequences, FiniteSets, TLC

\* ------------------------------------------------------------------ bounds
\* most rolling windows a backtest configuration asks for
MaxWindows == 2
\* most transform entries one lag_transforms mapping holds, over all its lags
MaxTfms == 2

\* ------------------------------------------------------------ frames (Frame)
\* A value handed to validate_data_format: its container type, the name of its
\* index, its columns, and what the ds column holds ("none" when there is no
\* ds column): a datetime64 column, strings that parse as dates, or strings
\* that do not.
Containers == {"pandas", "dask"}
DsKinds == {"datetime", "str", "bad_str"}
NotAFrame == [container |-> "other", index |-> "none", columns |-> {}, ds |-> "none"]
Frames(containers) ==
    { [container |-> c, index |-> ix, columns |-> cols, ds |-> d] :
        c \in containers, ix \in {"unique_id", "idx"},
        cols \in SUBSET {"unique_id", "y"}, d \in {"none"} }
    \cup
    { [container |-> c, index |-> ix, columns |-> cols \cup {"ds"}, ds |-> d] :
        c \in containers, ix \in {"unique_id", "idx"},
        cols \in SUBSET {"unique_id", "y"}, d \in DsKinds }
AllData == Frames(Containers) \cup {NotAFrame}

\* isinstance(data, (pd.DataFrame, dd_Frame))
IsFrame(data) == data.container \in Containers
\* isinstance(data, pd.DataFrame)
IsPandasFrame(data) == data.container = "pandas"
\* isinstance(data, dd_Frame)
IsDaskFrame(data) == data.container = "dask"

\* data.set_index('unique_id'): the column becomes the index
SetIndex(data) ==
    [data EXCEPT !.index = "unique_id", !.columns = data.columns \ {"unique_id"}]

\* is_datetime64_dtype(data['ds'])
IsDatetime64(data) == data.ds \in {"datetime", "lazy_datetime"}

\* pd.to_datetime parses eagerly and raises on a string that is no date;
\* dd.to_datetime only records the conversion, which runs at compute time.
ToDatetimeRaises(data) == IsPandasFrame(data) /\ data.ds = "bad_str"
ToDatetime(data) ==
    IF IsPandasFrame(data) THEN [data EXCEPT !.ds = "datetime"]
    ELSE [data EXCEPT !.ds = IF data.ds = "bad_str" THEN "lazy_datetime" ELSE "datetime"]

NoError == "none"
ErrNotFrame == "data must be either pandas or dask dataframe."
ErrUniqueId == "unique_id not found in data."
ErrDs == "ds column not found in data."
ErrY == "y column not found in data."
ErrToDatetime == "to_datetime: unknown string format"

Raise(e, data) == [err |-> e, data |-> data]
Return(data) == [err |-> NoError, data |-> data]

\* a faulty variant of the column checks: y is looked for before ds
ValidateColumnsYFirst(data) ==
    IF "y" \notin data.columns THEN Raise(ErrY, data)
    ELSE IF "ds" \notin data.columns THEN Raise(ErrDs, data)
    ELSE IF ~IsDatetime64(data) /\ ToDatetimeRaises(data) THEN Raise(ErrToDatetime, data)
    ELSE Return(IF IsDatetime64(data) THEN data ELSE ToDatetime(data))

\* the checks after the index has been settled (lines 58-67)
ValidateColumns(data) ==
    IF "ds" \notin data.columns THEN Raise(ErrDs, data)
    ELSE IF ~IsDatetime64(data) /\ ToDatetimeRaises(data) THEN Raise(ErrToDatetime, data)
    ELSE LET d == IF IsDatetime64(data) THEN data ELSE ToDatetime(data)
         IN  IF "y" \notin d.columns THEN Raise(ErrY, d) ELSE Return(d)

validate_data_format(data) ==
    IF ~IsFrame(data) THEN Raise(ErrNotFrame, data)
    ELSE IF data.index # "unique_id"
         THEN IF "unique_id" \in data.columns
              THEN ValidateColumns(SetIndex(data))
              ELSE Raise(ErrUniqueId, data)
         ELSE ValidateColumns(data)

\* ------------------------------------------------- transforms (4.3 resolver)
\* The registered catalog with each transform's signature; the first
\* parameter is the series the transform is applied to.
TfmSignature(name) ==
    CASE name = "rolling_mean" -> <<"series">>
      [] name = "seasonal_rolling_mean" -> <<"series", "season_length", "window_size">>
      [] OTHER -> <<>>
_available_tfms == {"rolling_mean", "seasonal_rolling_mean"}
\* list(inspect.signature(tfm).parameters)[1:]
_available_tfms_kwargs(name) == Tail(TfmSignature(name))

\* names a configuration may write: the catalog and one unregistered name
TfmNames == _available_tfms \cup {"rolling_median"}
KwargNames == {"season_length", "window_size"}
\* the value a configuration gives a keyword argument
KwargValue(k) == IF k = "season_length" THEN 7 ELSE 14

Range(s) == { s[i] : i \in DOMAIN s }
\* keyword mappings in the order the caller wrote them: <<name, value>> pairs
KwargSeqs ==
    UNION { { [i \in 1..n |-> <<f[i], KwargValue(f[i])>>] :
              f \in { g \in [1..n -> KwargNames] :
                        \A i, j \in 1..n : i # j => g[i] # g[j] } } :
            n \in 0..Cardinality(KwargNames) }
\* a transform entry: a bare name, or a one-key mapping name -> kwargs
TfmEntries ==
    { [dict |-> FALSE, name |-> n, kwargs |-> <<>>] : n \in TfmNames }
    \cup { [dict |-> TRUE, name |-> n, kwargs |-> kw] : n \in TfmNames, kw \in KwargSeqs }

Lags == {7, 14}
RECURSIVE LagShapes(_, _)
\* the shapes of a mapping lag -> list of entries, in the order the
\* configuration wrote its items: <<lag, number of entries>> pairs over
\* distinct lags of `lags`, with at most `budget` entries in all
LagShapes(lags, budget) ==
    { <<>> } \cup
    UNION { { << <<l, k>> >> \o rest : rest \in LagShapes(lags \ {l}, budget - k) } :
            l \in lags, k \in 0..budget }
RECURSIVE ShapeSize(_)
ShapeSize(shape) == IF shape = <<>> THEN 0 ELSE Head(shape)[2] + ShapeSize(Tail(shape))
RECURSIVE LagItems(_, _)
\* the items of the mapping of shape `shape` filled with the entries `es`:
\* <<lag, list of entries>> pairs
LagItems(shape, es) ==
    IF shape = <<>> THEN <<>>
    ELSE LET k == Head(shape)[2]
         IN  << <<Head(shape)[1], SubSeq(es, 1, k)>> >>
             \o LagItems(Tail(shape), SubSeq(es, k + 1, Len(es)))
\* FeaturesConfig.lag_transforms: None, or a mapping
None == [isNone |-> TRUE, items |-> <<>>]
Some(items) == [isNone |-> FALSE, items |-> items]

\* tfm_kwargs[kwarg] for a kwarg the caller supplied
KwargOf(tfm_kwargs, kwarg) ==
    (CHOOSE p \in Range(tfm_kwargs) : p[1] = kwarg)[2]
SuppliedNames(tfm_kwargs) == { p[1] : p \in Range(tfm_kwargs) }

RECURSIVE TfmArgsCallerOrder(_, _)
\* a faulty variant of TfmArgs: the values in the order the caller wrote them
TfmArgsCallerOrder(declared, tfm_kwargs) ==
    IF tfm_kwargs = <<>> THEN <<>>
    ELSE (IF Head(tfm_kwargs)[1] \in Range(declared) THEN <<Head(tfm_kwargs)[2]>> ELSE <<>>)
         \o TfmArgsCallerOrder(declared, Tail(tfm_kwargs))

RECURSIVE TfmArgs(_, _)
\* lines 117-120: walk the declared parameters, keep those the caller supplied
TfmArgs(declared, tfm_kwargs) ==
    IF declared = <<>> THEN <<>>
    ELSE (IF Head(declared) \in SuppliedNames(tfm_kwargs)
          THEN <<KwargOf(tfm_kwargs, Head(declared))>> ELSE <<>>)
         \o TfmArgs(Tail(declared), tfm_kwargs)

\* lines 110-121 for one entry: the tuple (tfm_func, *tfm_args); the callable
\* is named by its registered name
TfmTuple(tfm) == <<tfm.name>> \o TfmArgs(_available_tfms_kwargs(tfm.name), tfm.kwargs)


\* line 114
Registered(tfm_name) == tfm_name \in _available_tfms

ErrNotImplemented == "NotImplementedError"
RECURSIVE AppendTfmsSkipUnknown(_, _)
\* a faulty variant of AppendTfms: an unregistered name is passed over
AppendTfmsSkipUnknown(acc, tfms) ==
    IF tfms = <<>> THEN [err |-> NoError, name |-> "", value |-> acc]
    ELSE IF ~Registered(Head(tfms).name)
         THEN AppendTfmsSkipUnknown(acc, Tail(tfms))
         ELSE AppendTfmsSkipUnknown(Append(acc, TfmTuple(Head(tfms))), Tail(tfms))

RECURSIVE AppendTfms(_, _)
\* lines 109-121: the inner loop over one lag's entries; `acc` is lag_tfms[lag]
AppendTfms(acc, tfms) ==
    IF tfms = <<>> THEN [err |-> NoError, name |-> "", value |-> acc]
    ELSE IF ~Registered(Head(tfms).name)
         THEN [err |-> ErrNotImplemented, name |-> Head(tfms).name, value |-> <<>>]
         ELSE AppendTfms(Append(acc, TfmTuple(Head(tfms))), Tail(tfms))

RECURSIVE InstantiateLoop(_, _)
\* lines 108-122: the outer loop over the mapping's items; lag_tfms is a
\* defaultdict(list), so a lag gets a key only when a tuple is appended to it
InstantiateLoop(items, lag_tfms) ==
    IF items = <<>> THEN [err |-> NoError, name |-> "", value |-> lag_tfms]
    ELSE LET lag == Head(items)[1]
             r == AppendTfms(<<>>, Head(items)[2])
         IN  IF r.err # NoError THEN r
             ELSE InstantiateLoop(Tail(items),
                      IF r.value = <<>> THEN lag_tfms ELSE (lag :> r.value) @@ lag_tfms)

\* lines 103-122
_instantiate_transforms(lag_transforms) ==
    IF lag_transforms.isNone THEN [err |-> NoError, name |-> "", value |-> <<>>]
    ELSE InstantiateLoop(lag_transforms.items, <<>>)

\* ---------------------------------------------------------- paths and writes
\* _path_as_str(output_path/name)
PathAsStr(name) == "out/" \o name
EndsWith(s, suffix) ==
    Len(s) >= Len(suffix) /\ SubSeq(s, Len(s) - Len(suffix) + 1, Len(s)) = suffix
Formats == {"csv", "parquet"}

\* line 164
DataIsDask(data) == IsDaskFrame(data)
\* a faulty variant of the forecast's extension test: the extension is always added
ForecastHasExtAlways(data) == TRUE
\* line 222
ForecastHasExt(data) == IsPandasFrame(data)

\* a faulty variant of the split's name: every split goes to valid_0
SplitNameFixed(i) == "valid_0"
\* line 171: f'valid_{i}'
SplitName(i) == "valid_" \o ToString(i)

\* lines 171-173
SplitPath(i, data, format) ==
    IF ~DataIsDask(data) THEN PathAsStr(SplitName(i)) \o "." \o format
    ELSE PathAsStr(SplitName(i))
\* lines 221-223
ForecastPath(data, format) ==
    IF ForecastHasExt(data) THEN PathAsStr("forecast") \o "." \o format
    ELSE PathAsStr("forecast")

\* ------------------------------------------------------------ configuration
\* BacktestConfig or None; n_windows is the number of split results
BacktestConfigs ==
    { [isNone |-> TRUE, n_windows |-> 0] }
    \cup { [isNone |-> FALSE, n_windows |-> n] : n \in 1..MaxWindows }
\* a validated frame of the given container, as read_data returns it
ValidFrame(c) == [container |-> c, index |-> "unique_id", columns |-> {"ds", "y"},
                  ds |-> "datetime"]
\* FlowConfig: distributed stands for `config.distributed is not None` (else
\* local is set), forecast for `config.forecast is not None`
\* a whole run is exercised with lag_transforms absent or holding one bare name
RunLagTransforms ==
    {None} \cup { Some(<< <<7, <<e>> >> >>) : e \in { t \in TfmEntries : ~t.dict } }
RunConfigs ==
    [distributed : BOOLEAN, backtest : BacktestConfigs, forecast : BOOLEAN,
     format : Formats, lag_transforms : RunLagTransforms]
DefaultConfig ==
    [distributed |-> FALSE, backtest |-> [isNone |-> TRUE, n_windows |-> 0],
     forecast |-> FALSE, format |-> "csv", lag_transforms |-> None]

\* the entry points of the module that are exercised
Entries == {"run_forecast", "perform_backtest", "validate_data_format",
            "_instantiate_transforms"}

VARIABLES
    entry,              \* the entry point this behaviour calls
    config,             \* the FlowConfig (parse_config's result)
    pc,                 \* the position in the entry point's code
    stages,             \* the run controller's stages, in the order entered
    exc,                \* the exception raised inside run_forecast's try block
    raised,             \* the exception that reached the caller
    clusterUp,          \* a cluster object is instantiated and not closed
    client,             \* run_forecast's `client` is bound
    setupCalls,         \* calls of setup_client
    clusterCloseCalls,  \* calls of client.cluster.close()
    clientCloseCalls,   \* calls of client.close()
    data,               \* the frame: the argument, then read_data's result
    modelImports,       \* model classes imported and instantiated
    fcst,               \* the forecast object built by fcst_from_config
    backtestCalls,      \* calls of fcst.backtest
    results,            \* number of split results fcst.backtest returned
    i,                  \* perform_backtest's loop index
    filled,             \* split indices whose result went through fillna(0)
    writes,             \* the writer calls made, in order
    reports,            \* the split numbers printed with their MSE, in order
    fitCalls,           \* calls of fcst.fit
    predictCalls,       \* calls of fcst.predict
    ret                 \* the value or error a pure entry point returned

vars == <<entry, config, pc, stages, exc, raised, clusterUp, client, setupCalls,
          clusterCloseCalls, clientCloseCalls, data, modelImports, fcst,
          backtestCalls, results, i, filled, writes, reports, fitCalls,
          predictCalls, ret>>
clusterVars == <<clusterUp, client, setupCalls, clusterCloseCalls, clientCloseCalls>>
modelVars == <<modelImports, fcst>>
backtestVars == <<backtestCalls, results, i, filled, reports>>
forecastVars == <<fitCalls, predictCalls>>

Init ==
    /\ entry \in Entries
    /\ \/ entry = "run_forecast" /\ config \in RunConfigs
          /\ data = NotAFrame /\ pc = "Init"
       \/ entry = "perform_backtest"
          /\ \E c \in Containers, b \in BacktestConfigs, f \in Formats :
                /\ data = ValidFrame(c)
                /\ config = [DefaultConfig EXCEPT !.distributed = (c = "dask"),
                                                  !.backtest = b, !.format = f]
          /\ pc = "perform_backtest"
       \/ entry = "validate_data_format" /\ config = DefaultConfig
          /\ data \in AllData /\ pc = "call"
       \/ entry = "_instantiate_transforms"
          /\ \/ config = DefaultConfig
             \/ \E shape \in LagShapes(Lags, MaxTfms) :
                   \E es \in [1..ShapeSize(shape) -> TfmEntries] :
                      config = [DefaultConfig EXCEPT
                                   !.lag_transforms = Some(LagItems(shape, es))]
          /\ data = NotAFrame /\ pc = "call"
    /\ stages = IF entry = "run_forecast" THEN <<"Init">> ELSE <<>>
    /\ exc = NoError /\ raised = NoError
    /\ clusterUp = FALSE /\ client = FALSE
    /\ setupCalls = 0 /\ clusterCloseCalls = 0 /\ clientCloseCalls = 0
    /\ modelImports = 0 /\ fcst = "none"
    /\ backtestCalls = 0 /\ results = 0 /\ i = 0
    /\ filled = <<>> /\ writes = <<>> /\ reports = <<>>
    /\ fitCalls = 0 /\ predictCalls = 0
    /\ ret = [err |-> "unset"]

\* -------------------------------------------------- run controller plumbing
\* the stage of the run controller (4.7) a code position belongs to
StageOf(p) ==
    CASE p = "Init" -> "Init"
      [] p = "setup_client" -> "ClusterStarting"
      [] p \in {"read_data", "mkdir"} -> "DataLoading"
      [] p = "fcst_from_config" -> "ModelBuilding"
      [] p \in {"perform_backtest", "split_fillna", "split_write", "split_report"}
            -> "Backtesting"
      [] p \in {"fit", "predict", "write_forecast"} -> "Forecasting"
      [] p \in {"cluster_close", "client_close"} -> "ClusterStopping"
      [] p = "Done" -> "Done"
      [] OTHER -> ""

\* move to position p; entering another stage is recorded
Goto(p) ==
    /\ pc' = p
    /\ stages' = IF entry = "run_forecast" /\ StageOf(p) # ""
                    /\ StageOf(p) # stages[Len(stages)]
                 THEN Append(stages, StageOf(p)) ELSE stages

\* an exception raised at the current position: inside run_forecast's try
\* block it is caught and re-raised (lines 225-226), which leads into the
\* finally clause; in a direct call it reaches the caller at once
Fail(e) ==
    IF entry = "run_forecast"
    THEN pc' = "finally" /\ exc' = e /\ UNCHANGED <<stages, raised>>
    ELSE pc' = "Raised" /\ raised' = e /\ UNCHANGED <<stages, exc>>

\* line 204
IsDistributed(cfg) == cfg.distributed

\* a faulty variant of AfterBacktest: the forecast is made whether configured or not
AfterBacktestAlways(cfg) == "fit"
\* line 217
AfterBacktest(cfg) == IF cfg.forecast THEN "fit" ELSE "finally"
\* line 215
AfterModel(cfg) == IF ~cfg.backtest.isNone THEN "perform_backtest" ELSE AfterBacktest(cfg)

\* a faulty variant of BacktestAbsent: the early return is never taken
BacktestAbsentNever(cfg) == FALSE
\* line 162
BacktestAbsent(cfg) == cfg.backtest.isNone

\* ------------------------------------------------------- run_forecast (4.7)
\* lines 203-206: parse the configuration, then start a cluster or read data
ParseConfig ==
    /\ entry = "run_forecast" /\ pc = "Init"
    /\ Goto(IF IsDistributed(config) THEN "setup_client" ELSE "read_data")
    /\ UNCHANGED <<entry, config, exc, raised, clusterVars, data, modelVars,
                   backtestVars, writes, forecastVars, ret>>

SetupOutcomes == {"cluster_error", "client_error", "wait_error", "ok"}
\* lines 189-197 called from line 206, outside the try block: the cluster
\* class is imported and instantiated, a Client is connected to it, the
\* workers are awaited; whichever raises, the exception leaves run_forecast
SetupClient ==
    /\ entry = "run_forecast" /\ pc = "setup_client"
    /\ setupCalls' = setupCalls + 1
    /\ \E outcome \in SetupOutcomes :
          /\ clusterUp' = (outcome # "cluster_error")
          /\ client' = (outcome = "ok")
          /\ IF outcome = "ok"
             THEN Goto("read_data") /\ raised' = raised
             ELSE pc' = "Raised" /\ raised' = outcome /\ stages' = stages
    /\ UNCHANGED <<entry, config, exc, clusterCloseCalls, clientCloseCalls, data,
                   modelVars, backtestVars, writes, forecastVars, ret>>

\* line 87
IoModule(is_distributed) == IF is_distributed THEN "dask" ELSE "pandas"

\* lines 80-100 called from line 208: the reader of the chosen module
\* returns a frame of that module (or raises), which is then validated
ReadData ==
    /\ entry = "run_forecast" /\ pc = "read_data"
    /\ \/ Fail("read_error") /\ data' = data
       \/ \E frame \in Frames({IoModule(IsDistributed(config))}) :
             LET r == validate_data_format(frame)
             IN  IF r.err # NoError
                 THEN Fail(r.err) /\ data' = data
                 ELSE Goto("mkdir") /\ data' = r.data /\ UNCHANGED <<exc, raised>>
    /\ UNCHANGED <<entry, config, clusterVars, modelVars, backtestVars, writes,
                   forecastVars, ret>>

\* lines 209-212: the output directory
Mkdir ==
    /\ entry = "run_forecast" /\ pc = "mkdir"
    /\ \/ Fail("mkdir_error")
       \/ Goto("fcst_from_config") /\ UNCHANGED <<exc, raised>>
    /\ UNCHANGED <<entry, config, clusterVars, data, modelVars, backtestVars,
                   writes, forecastVars, ret>>

\* lines 145-153 called from line 214: the transforms are resolved first,
\* then the model class is imported and instantiated and wrapped
FcstFromConfig ==
    /\ entry = "run_forecast" /\ pc = "fcst_from_config"
    /\ LET r == _instantiate_transforms(config.lag_transforms)
       IN  IF r.err # NoError
           THEN Fail(r.err) /\ UNCHANGED modelVars
           ELSE /\ modelImports' = modelImports + 1
                /\ \/ Fail("model_error") /\ fcst' = fcst
                   \/ /\ fcst' = IF IsDistributed(config) THEN "DistributedForecast"
                                 ELSE "Forecast"
                      /\ Goto(AfterModel(config))
                      /\ UNCHANGED <<exc, raised>>
    /\ UNCHANGED <<entry, config, clusterVars, data, backtestVars, writes,
                   forecastVars, ret>>

\* the end of perform_backtest: back in run_forecast, or back at the caller
BacktestReturns ==
    IF entry = "run_forecast" THEN Goto(AfterBacktest(config))
    ELSE pc' = "Returned" /\ stages' = stages

\* lines 162-168: the early return, else the call of fcst.backtest, which
\* hands back n_windows split results
PerformBacktest ==
    /\ entry \in {"run_forecast", "perform_backtest"} /\ pc = "perform_backtest"
    /\ IF BacktestAbsent(config)
       THEN BacktestReturns /\ UNCHANGED <<exc, raised, backtestVars>>
       ELSE /\ backtestCalls' = backtestCalls + 1
            /\ \/ Fail("backtest_error") /\ UNCHANGED <<results, i, filled, reports>>
               \/ /\ results' = config.backtest.n_windows
                  /\ i' = 0
                  /\ IF config.backtest.n_windows = 0 THEN BacktestReturns
                     ELSE Goto("split_fillna")
                  /\ UNCHANGED <<exc, raised, filled, reports>>
    /\ UNCHANGED <<entry, config, clusterVars, data, modelVars, writes,
                   forecastVars, ret>>

\* line 170
SplitFillna ==
    /\ pc = "split_fillna"
    /\ \/ Fail("fillna_error") /\ filled' = filled
       \/ filled' = Append(filled, i) /\ Goto("split_write") /\ UNCHANGED <<exc, raised>>
    /\ UNCHANGED <<entry, config, clusterVars, data, modelVars, backtestCalls,
                   results, i, reports, writes, forecastVars, ret>>

\* lines 171-175
SplitWrite ==
    /\ pc = "split_write"
    /\ \/ Fail("split_write_error") /\ writes' = writes
       \/ /\ writes' = Append(writes, [what |-> "split", split |-> i,
                                       path |-> SplitPath(i, data, config.format),
                                       writer |-> "to_" \o config.format])
          /\ Goto("split_report")
          /\ UNCHANGED <<exc, raised>>
    /\ UNCHANGED <<entry, config, clusterVars, data, modelVars, backtestVars,
                   forecastVars, ret>>

\* lines 176-180, and the loop's step back to line 169
SplitReport ==
    /\ pc = "split_report"
    /\ \/ Fail("mse_error") /\ UNCHANGED <<reports, i>>
       \/ /\ reports' = Append(reports, i + 1)
          /\ i' = i + 1
          /\ IF i + 1 < results THEN Goto("split_fillna") ELSE BacktestReturns
          /\ UNCHANGED <<exc, raised>>
    /\ UNCHANGED <<entry, config, clusterVars, data, modelVars, backtestCalls,
                   results, filled, writes, forecastVars, ret>>

\* line 218
Fit ==
    /\ pc = "fit"
    /\ fitCalls' = fitCalls + 1
    /\ \/ Fail("fit_error")
       \/ Goto("predict") /\ UNCHANGED <<exc, raised>>
    /\ UNCHANGED <<entry, config, clusterVars, data, modelVars, backtestVars,
                   writes, predictCalls, ret>>

\* line 219
Predict ==
    /\ pc = "predict"
    /\ predictCalls' = predictCalls + 1
    /\ \/ Fail("predict_error")
       \/ Goto("write_forecast") /\ UNCHANGED <<exc, raised>>
    /\ UNCHANGED <<entry, config, clusterVars, data, modelVars, backtestVars,
                   writes, fitCalls, ret>>

\* lines 220-224
WriteForecast ==
    /\ pc = "write_forecast"
    /\ \/ Fail("forecast_write_error") /\ writes' = writes
       \/ /\ writes' = Append(writes, [what |-> "forecast", split |-> -1,
                                       path |-> ForecastPath(data, config.format),
                                       writer |-> "to_" \o config.format])
          /\ Goto("finally")
          /\ UNCHANGED <<exc, raised>>
    /\ UNCHANGED <<entry, config, clusterVars, data, modelVars, backtestVars,
                   forecastVars, ret>>

\* run_forecast ends: it returns, or the exception in flight reaches the caller
Exit(e) ==
    IF e = NoError THEN Goto("Done") /\ raised' = raised
    ELSE pc' = "Raised" /\ raised' = e /\ stages' = stages

\* a faulty variant of Finally: the teardown is skipped when the body raised
FinallyOnSuccessOnly ==
    /\ pc = "finally"
    /\ IF IsDistributed(config) /\ exc = NoError
       THEN Goto("cluster_close") /\ raised' = raised
       ELSE Exit(exc)
    /\ UNCHANGED <<entry, config, exc, clusterVars, data, modelVars, backtestVars,
                   writes, forecastVars, ret>>

\* lines 227-228: the finally clause is entered on every way out of the try
Finally ==
    /\ pc = "finally"
    /\ IF IsDistributed(config)
       THEN Goto("cluster_close") /\ raised' = raised
       ELSE Exit(exc)
    /\ UNCHANGED <<entry, config, exc, clusterVars, data, modelVars, backtestVars,
                   writes, forecastVars, ret>>

\* line 229: an exception raised in the finally clause replaces the one in
\* flight and leaves run_forecast at once
ClusterClose ==
    /\ pc = "cluster_close"
    /\ clusterCloseCalls' = clusterCloseCalls + 1
    /\ \/ pc' = "Raised" /\ raised' = "cluster_close_error"
          /\ UNCHANGED <<stages, clusterUp>>
       \/ clusterUp' = FALSE /\ Goto("client_close") /\ raised' = raised
    /\ UNCHANGED <<entry, config, exc, client, setupCalls, clientCloseCalls, data,
                   modelVars, backtestVars, writes, forecastVars, ret>>

\* line 230
ClientClose ==
    /\ pc = "client_close"
    /\ clientCloseCalls' = clientCloseCalls + 1
    /\ \/ pc' = "Raised" /\ raised' = "client_close_error" /\ stages' = stages
       \/ Exit(exc)
    /\ UNCHANGED <<entry, config, exc, clusterUp, client, setupCalls,
                   clusterCloseCalls, data, modelVars, backtestVars, writes,
                   forecastVars, ret>>

\* ------------------------------------------------------- direct calls
\* validate_data_format(data), lines 49-67
CallValidate ==
    /\ entry = "validate_data_format" /\ pc = "call"
    /\ ret' = validate_data_format(data)
    /\ pc' = IF ret'.err = NoError THEN "Returned" ELSE "Raised"
    /\ raised' = ret'.err
    /\ UNCHANGED <<entry, config, stages, exc, clusterVars, data, modelVars,
                   backtestVars, writes, forecastVars>>

\* _instantiate_transforms(config.features), lines 103-122
CallInstantiateTransforms ==
    /\ entry = "_instantiate_transforms" /\ pc = "call"
    /\ ret' = _instantiate_transforms(config.lag_transforms)
    /\ pc' = IF ret'.err = NoError THEN "Returned" ELSE "Raised"
    /\ raised' = ret'.err
    /\ UNCHANGED <<entry, config, stages, exc, clusterVars, data, modelVars,
                   backtestVars, writes, forecastVars>>

Next ==
    \/ ParseConfig \/ SetupClient \/ ReadData \/ Mkdir \/ FcstFromConfig
    \/ PerformBacktest \/ SplitFillna \/ SplitWrite \/ SplitReport
    \/ Fit \/ Predict \/ WriteForecast
    \/ Finally \/ ClusterClose \/ ClientClose
    \/ CallValidate \/ CallInstantiateTransforms

Spec == Init /\ [][Next]_vars

\* ================================================================ properties
IsRun == entry = "run_forecast"
Entered(stage) == stage \in Range(stages)
SplitWrites == SelectSeq(writes, LAMBDA w : w.what = "split")
ForecastWrites == SelectSeq(writes, LAMBDA w : w.what = "forecast")

C2_StartupFailureReleasesCluster ==
    (IsRun /\ pc = "Raised" /\ raised \in {"client_error", "wait_error"})
        => (setupCalls = 1 /\ clusterCloseCalls = 1 /\ ~clusterUp)

\* ---------------------------------------------------------------------- C3
\* the stage an exception of the try block is raised in
ErrStage(e) ==
    CASE e \in {"read_error", ErrNotFrame, ErrUniqueId, ErrDs, ErrY, ErrToDatetime,
                "mkdir_error"} -> "DataLoading"
      [] e \in {ErrNotImplemented, "model_error"} -> "ModelBuilding"
      [] e \in {"backtest_error", "fillna_error", "split_write_error", "mse_error"}
            -> "Backtesting"
      [] e \in {"fit_error", "predict_error", "forecast_write_error"} -> "Forecasting"
      [] OTHER -> ""
BodyStages == SelectSeq(stages, LAMBDA st : st # "ClusterStopping")
\* C3: an error raised by a stage from data loading through forecasting is
\* never swallowed: no later stage is entered after the failing one, the run
\* never reaches Done, and the error that reaches the caller is the failing
\* stage's error, also when client.cluster.close() or client.close() fail.
C3_StageErrorReachesCaller ==
    (IsRun /\ exc # NoError) =>
        /\ BodyStages[Len(BodyStages)] = ErrStage(exc)
        /\ pc # "Done" /\ ~Entered("Done")
        /\ pc = "Raised" => raised = exc

\* ---------------------------------------------------------------------- C4
StageRank(st) ==
    CASE st = "Init" -> 0
      [] st = "ClusterStarting" -> 1
      [] st = "DataLoading" -> 2
      [] st = "ModelBuilding" -> 3
      [] st = "Backtesting" -> 4
      [] st = "Forecasting" -> 5
      [] st = "ClusterStopping" -> 6
      [] st = "Done" -> 7
RunOver == pc \in {"Done", "Raised"}
\* what C4 says of the stages apart from when ClusterStopping must occur:
\* the order, no stage twice, and each optional stage only when configured
StagesInOrder ==
    /\ \A j, k \in DOMAIN stages : j < k => StageRank(stages[j]) < StageRank(stages[k])
    /\ stages[1] = "Init"
    /\ (pc # "Init") => (Entered("ClusterStarting") <=> IsDistributed(config))
    /\ Entered("ClusterStopping") => IsDistributed(config)
    /\ Entered("Backtesting") => ~config.backtest.isNone
    /\ Entered("Forecasting") => config.forecast
    /\ Entered("ModelBuilding") => (Entered("DataLoading") /\ IsFrame(data))
    /\ fcst # "none" => IsFrame(data)
C5_SplitsInOrder ==
    /\ \A k \in DOMAIN filled : filled[k] = k - 1
    /\ \A k \in DOMAIN SplitWrites : SplitWrites[k].split = k - 1
    /\ \A k \in DOMAIN reports : reports[k] = k
    /\ Len(reports) <= Len(SplitWrites)
    /\ Len(SplitWrites) <= Len(filled)
    /\ Len(filled) <= Len(reports) + 1
    /\ Len(reports) <= results
    /\ \A k \in DOMAIN SplitWrites :
          /\ \E ext \in {""} \cup { "." \o f : f \in Formats } :
                SplitWrites[k].path = "out/valid_" \o ToString(k - 1) \o ext
          /\ \A m \in DOMAIN SplitWrites : m # k => SplitWrites[m].path # SplitWrites[k].path
C5_Witness ==
    /\ reports = <<1, 2>> /\ Len(SplitWrites) = 2 /\ filled = <<0, 1>>
    /\ SplitWrites[1].path = "out/valid_0.csv" /\ SplitWrites[2].path = "out/valid_1.csv"

\* ---------------------------------------------------------------------- C6
\* C6: with config.backtest absent, neither run_forecast nor a direct call of
\* perform_backtest calls fcst.backtest, writes a split or reports an MSE; a
\* configured forecast is still fitted, predicted and written.
C6_NoBacktestNoEffect ==
    config.backtest.isNone =>
        /\ backtestCalls = 0 /\ filled = <<>> /\ SplitWrites = <<>> /\ reports = <<>>
        /\ (entry = "perform_backtest" /\ pc # "perform_backtest")
              => (pc = "Returned" /\ writes = <<>> /\ raised = NoError)
        /\ (IsRun /\ pc = "Done" /\ config.forecast)
              => (fitCalls = 1 /\ predictCalls = 1 /\ Len(ForecastWrites) = 1)
        /\ (IsRun /\ pc = "Done" /\ ~config.forecast)
              => (fitCalls = 0 /\ predictCalls = 0 /\ writes = <<>>)
C6_Witness ==
    entry = "perform_backtest" /\ config.backtest.isNone /\ pc = "Returned"
    /\ backtestCalls = 0 /\ writes = <<>>

\* ---------------------------------------------------------------------- C7
HasExt(path, format) == EndsWith(path, "." \o format)
BareName(w) == IF w.what = "split" THEN "valid_" \o ToString(w.split) ELSE "forecast"
\* C7: every path the pipeline writes (each split and the forecast) ends with
\* ".<format>" exactly when the data is a single-machine (pandas) frame and is
\* the bare name exactly when the data is a distributed (dask) frame, so the
\* split writes and the forecast write of one run follow one convention.
C7_ExtensionConvention ==
    \A k \in DOMAIN writes :
        LET w == writes[k]
        IN  /\ HasExt(w.path, config.format) <=> data.container = "pandas"
            /\ (w.path = "out/" \o BareName(w)) <=> data.container = "dask"
            /\ w.writer = "to_" \o config.format
            /\ \A m \in DOMAIN writes :
                  HasExt(writes[m].path, config.format) <=> HasExt(w.path, config.format)
C7_Witness ==
    /\ IsRun /\ data.container = "dask" /\ config.format = "parquet"
    /\ Len(SplitWrites) >= 1 /\ Len(ForecastWrites) = 1
    /\ ForecastWrites[1].path = "out/forecast"
    /\ SplitWrites[1].path = "out/valid_0"

\* ---------------------------------------------------------------------- C8
Validated == entry = "validate_data_format" /\ pc # "call" /\ IsFrame(data)
MissingUniqueId == data.index # "unique_id" /\ "unique_id" \notin data.columns
MissingDs == "ds" \notin data.columns
MissingY == "y" \notin data.columns
\* a ds column of strings that are no dates, in a frame that converts eagerly
DsUnparsable == data.container = "pandas" /\ data.ds = "bad_str"
\* C8 as stated: the checks run in the order unique_id, ds, y and the first
\* missing one decides the error; a frame with all three never fails.
C8_CheckOrder_Original ==
    Validated =>
        /\ MissingUniqueId => ret.err = ErrUniqueId
        /\ (~MissingUniqueId /\ MissingDs) => ret.err = ErrDs
        /\ (~MissingUniqueId /\ ~MissingDs /\ MissingY) => ret.err = ErrY
        /\ (~MissingUniqueId /\ ~MissingDs /\ ~MissingY) => ret.err = NoError
\* C8 as amended: the same order, but between the ds check and the y check a
\* non-datetime ds column is converted, and in a pandas frame that conversion
\* raises on strings that are no dates: then the conversion's error is
\* raised, whether or not y is there. A frame with all three, whose ds
\* converts, never fails.
C8_CheckOrder ==
    Validated =>
        /\ MissingUniqueId => ret.err = ErrUniqueId
        /\ (~MissingUniqueId /\ MissingDs) => ret.err = ErrDs
        /\ (~MissingUniqueId /\ ~MissingDs /\ DsUnparsable) => ret.err = ErrToDatetime
        /\ (~MissingUniqueId /\ ~MissingDs /\ ~DsUnparsable /\ MissingY) => ret.err = ErrY
        /\ (~MissingUniqueId /\ ~MissingDs /\ ~DsUnparsable /\ ~MissingY)
              => (ret.err = NoError /\ pc = "Returned")
C8_Witness ==
    Validated /\ MissingUniqueId /\ MissingDs /\ MissingY /\ ret.err = ErrUniqueId

\* ---------------------------------------------------------------------- C9
HasUnregistered(lt) ==
    \E j \in DOMAIN lt.items : \E k \in DOMAIN lt.items[j][2] :
        lt.items[j][2][k].name \notin _available_tfms
\* C9: when a lag-transform entry names an unregistered transform, the
\* resolver fails with NotImplementedError, and fcst_from_config fails with
\* it before a model class is imported or instantiated and before a forecast
\* object exists, so the run calls no backtest, fit or predict and writes
\* nothing.
C9_UnknownTransformRejected ==
    HasUnregistered(config.lag_transforms) =>
        /\ (entry = "_instantiate_transforms" /\ pc # "call")
              => (pc = "Raised" /\ ret.err = ErrNotImplemented
                  /\ ret.name \notin _available_tfms)
        /\ IsRun =>
              /\ modelImports = 0 /\ fcst = "none"
              /\ backtestCalls = 0 /\ fitCalls = 0 /\ predictCalls = 0 /\ writes = <<>>
              /\ pc # "Done"
              /\ (Entered("ModelBuilding") /\ pc # "fcst_from_config")
                    => exc = ErrNotImplemented
C9_Witness ==
    IsRun /\ HasUnregistered(config.lag_transforms) /\ pc = "Raised"
    /\ raised = ErrNotImplemented /\ modelImports = 0

\* --------------------------------------------------------------------- C10
Resolved == entry = "_instantiate_transforms" /\ pc = "Returned"
\* the values of the kwargs of `tfm` named in `names`, in the order of `names`
ValuesInOrder(names, tfm) ==
    LET kept == SelectSeq(names, LAMBDA n : \E p \in Range(tfm.kwargs) : p[1] = n)
    IN  [k \in DOMAIN kept |-> KwargValue(kept[k])]
LagsWithEntries(items) == { it[1] : it \in { x \in Range(items) : x[2] # <<>> } }
EntriesOf(items, lag) == (CHOOSE it \in Range(items) : it[1] = lag)[2]
\* what C10 says apart from which values a tuple holds: one tuple per entry,
\* in the entries' order, under the entry's lag, headed by its callable; an
\* absent lag_transforms gives the empty mapping
TuplesPerEntry ==
    LET items == config.lag_transforms.items
    IN  /\ config.lag_transforms.isNone => ret.value = <<>>
        /\ DOMAIN ret.value = LagsWithEntries(items)
        /\ \A lag \in DOMAIN ret.value :
              /\ Len(ret.value[lag]) = Len(EntriesOf(items, lag))
              /\ \A k \in DOMAIN ret.value[lag] :
                    ret.value[lag][k][1] = EntriesOf(items, lag)[k].name
\* C10 as stated: the rest of each tuple is exactly the values of the keyword
\* arguments the caller supplied, in the declared parameter order.
C10_TupleArgs_Original ==
    Resolved =>
        /\ TuplesPerEntry
        /\ \A lag \in DOMAIN ret.value : \A k \in DOMAIN ret.value[lag] :
              LET tfm == EntriesOf(config.lag_transforms.items, lag)[k]
                  args == Tail(ret.value[lag][k])
              IN  /\ Len(args) = Len(tfm.kwargs)
                  /\ args = ValuesInOrder(_available_tfms_kwargs(tfm.name), tfm)
\* C10 as amended: the rest of each tuple is the values of those supplied
\* keyword arguments that the transform declares, in the declared parameter
\* order; a supplied keyword argument the transform does not declare is
\* dropped.
C10_TupleArgs ==
    Resolved =>
        /\ TuplesPerEntry
        /\ \A lag \in DOMAIN ret.value : \A k \in DOMAIN ret.value[lag] :
              LET tfm == EntriesOf(config.lag_transforms.items, lag)[k]
                  args == Tail(ret.value[lag][k])
              IN  args = ValuesInOrder(_available_tfms_kwargs(tfm.name), tfm)
C10_Witness ==
    /\ Resolved
    /\ \E lag \in DOMAIN ret.value :
          /\ Len(ret.value[lag]) = 2
          /\ ret.value[lag][2] = <<"seasonal_rolling_mean", 7, 14>>
          /\ EntriesOf(config.lag_transforms.items, lag)[2].kwargs
                = << <<"window_size", 14>>, <<"season_length", 7>> >>

====
